---- MODULE Spec2Model ----
(***************************************************************************)
(* The deployment hook 'astro:build:done' of astro-adapter-nekoweb.        *)
(*                                                                         *)
(* The repository holds three revisions of the adapter:                    *)
(*   src/index.ts          fetch based, version 2.0.3                      *)
(*   src/unnamed/part_000  first revision on top of @indiefellas/nekoweb-api*)
(*   src/unnamed/part_001  version 3.0.0 (domain / siteName / rssFeed)     *)
(* The variable `variant` says which revision a behaviour runs.            *)
(*                                                                         *)
(* One action is the code the hook runs between two awaits.  A remote call *)
(* is appended to `calls` as pending when the code issues it; the action   *)
(* Respond is the remote side answering it; the hook resumes when the call *)
(* it awaits is settled.                                                   *)
(***************************************************************************)
EXTENDS Integers, Sequences, FiniteSets, TLC

\* Number of builds (runs of the hook) in one working directory.
MaxRuns == 2

V_INDEX == "index.ts"
V_000 == "part_000"
V_001 == "part_001"
Variants == {V_INDEX, V_000, V_001}

\* How a remote call ends: a success response, a non-success response, or no
\* response at all (the transport fails).
Outcomes == {"ok", "nonok", "neterr"}

\* Files a build output directory may hold besides index.html.
OptionalFiles == {"404.html", "feed.xml"}
SrcSets == {{"index.html"} \cup s : s \in SUBSET OptionalFiles}

VARIABLES
    variant,    \* revision of the adapter
    args,       \* Options passed to createIntegration
    srcFiles,   \* names of the files in outDir (the build output)
    folder,     \* serve folder of the run ("" until known)
    rssFile,    \* pathname handed to finalizeUpload for the RSS edit
    rssContent, \* content handed to finalizeUpload for the RSS edit
    tmpDir,     \* '.build-temp': [exists, files]
    zipFile,    \* '<folder>.zip': [state, entries]
    pc,         \* position of the hook
    calls,      \* remote calls of this run, in the order issued
    detached,   \* the import promise is held by nobody (never awaited)
    err,        \* error the hook's promise rejected with
    log,        \* messages the adapter wrote in this run
    proc,       \* the node process: "alive" or "crashed"
    runs,       \* builds started so far
    atStart,    \* the local files as the run found them: [src, tmp, zip]
    hooks,      \* two hooks running at once in one working directory
    zips        \* the archive files of the two hooks, by name

vars == <<variant, args, srcFiles, folder, rssFile, rssContent, tmpDir, zipFile,
          pc, calls, detached, err, log, proc, runs, atStart, hooks, zips>>

NoErr == [step |-> "none", kind |-> "none"]
NoTmp == [exists |-> FALSE, files |-> {}]
NoZip == [state |-> "absent", entries |-> {}]
NoContent == [file |-> "none", newlines |-> 0, markers |-> 0]

\* An error thrown by the adapter itself (new Error(message)).
OwnError(msg) == [step |-> msg, kind |-> "thrown"]
\* The error a failed remote call raises: it says which call and how it failed.
CallError(op, res) == [step |-> op, kind |-> res]

----------------------------------------------------------------------------
(* Options *)

\* The identifier of the site (username, domain) in the answer of /site/info.
SiteId == "site-id"

ApiKeys == {"undefined", "", "key"}
SiteNames == {"undefined", SiteId}
FolderOpts == {"undefined", "", "site"}

\* index.ts:21-40 and part_000: apiKey?, folder?, cookie?
OptionsOld == [apiKey : ApiKeys, folder : FolderOpts, cookie : BOOLEAN,
               rssFeed : {"undefined"}, siteName : {"undefined"}]
\* part_001:20-47: apiKey, domain?, cookie?, siteName?, rssFeed?
OptionsNew == [apiKey : ApiKeys, folder : {"undefined"}, cookie : BOOLEAN,
               rssFeed : {"undefined", "feed.xml"}, siteName : SiteNames]

Falsy(s) == s \in {"undefined", ""}

----------------------------------------------------------------------------
(* Remote calls *)

\* A call just issued; arg is the path argument of delete and of an edit, the
\* state of the archive file read for append, "" for the others; content, site
\* and csrf are the fields of the same names of an edit's form (csrf 0: none).
CallEdit(op, arg, content) ==
    [op |-> op, arg |-> arg, content |-> content, site |-> "", csrf |-> 0,
     res |-> "pending"]
CallArg(op, arg) == CallEdit(op, arg, NoContent)
Call(op) == CallArg(op, "")
Issue(op) == Append(calls, Call(op))
Issued(op) == \E i \in 1..Len(calls) : calls[i].op = op
IndexOf(op) == CHOOSE i \in 1..Len(calls) : calls[i].op = op
ResultOf(op) == calls[IndexOf(op)].res
Succeeded(op) == Issued(op) /\ ResultOf(op) = "ok"
Failed(op) == Issued(op) /\ ResultOf(op) \in {"nonok", "neterr"}
Settled(op) == Issued(op) /\ ResultOf(op) # "pending"

Throw(e) == pc' = "failed" /\ err' = e

----------------------------------------------------------------------------
(* Local files *)

\* fs.rmSync(tmpBuildDir, { recursive: true, force: true })
rmSync(t) == NoTmp

\* The staging directory taken as it is found, without the rmSync.
FreshTmp_keep(t) == [t EXCEPT !.exists = TRUE]

\* if (fs.existsSync(tmpBuildDir)) fs.rmSync(...); fs.mkdirSync(tmpBuildDir)
FreshTmp(t) == [(IF t.exists THEN rmSync(t) ELSE t) EXCEPT !.exists = TRUE]

\* fs.cpSync(outDir, tmpBuildDir + `/${folder}`, { recursive: true })
cpSync(files, fld, t) ==
    [exists |-> TRUE, files |-> t.files \cup {<<fld, f>> : f \in files}]

\* fs.existsSync(outDir/404.html) -> fs.renameSync(404.html, not_found.html)
Rename404(files) ==
    IF "404.html" \in files
    THEN (files \ {"404.html"}) \cup {"not_found.html"}
    ELSE files

\* getRssFile(dir): the first entry of the directory that ends in '.xml'
getRssFile(files) ==
    IF \E f \in files : f = "feed.xml" THEN "feed.xml" ELSE "none"

\* const { apiKey, cookie, folder = 'build' } = args
FolderDefault(f) == IF f = "undefined" THEN "build" ELSE f

\* rssContent = fs.readFileSync(rssFile, 'utf-8') + `\n`
RssContentOld(f) ==
    IF f = "none" THEN NoContent
    ELSE [file |-> f, newlines |-> 1, markers |-> 0]

\* The content of part_001 without the deployment comment.
RssContentNew_nomarker(f) ==
    IF f = "undefined" THEN NoContent
    ELSE [file |-> f, newlines |-> 1, markers |-> 0]

\* rssContent = fs.readFileSync(join(outDir, rssFeed), 'utf-8')
\*              + `\n<!-- deployed to Nekoweb using ... on ${Date.now()} -->`
RssContentNew(f) ==
    IF f = "undefined" THEN NoContent
    ELSE [file |-> f, newlines |-> 1, markers |-> 1]

\* The builds that run at the same time, and the serve folders they deploy to.
Hooks == {"A", "B"}
Folders == {"site", "blog"}
NoHooks == [h \in Hooks |-> [pc |-> "none", folder |-> "", src |-> {}]]
NoZips == [f \in Folders |-> NoZip]

Init ==
    /\ hooks = NoHooks /\ zips = NoZips
    /\ variant \in Variants
    /\ args \in (IF variant = V_001 THEN OptionsNew ELSE OptionsOld)
    /\ srcFiles \in SrcSets
    /\ folder = ""
    /\ rssFile = "none"
    /\ rssContent = NoContent
    /\ tmpDir = NoTmp
    /\ zipFile = NoZip
    /\ pc = "start"
    /\ calls = <<>>
    /\ detached = FALSE
    /\ err = NoErr
    /\ log = {}
    /\ proc = "alive"
    /\ runs = 1
    /\ atStart = [src |-> srcFiles, tmp |-> tmpDir, zip |-> zipFile]

----------------------------------------------------------------------------
(* 'astro:build:done', up to await zipDirectory(...) *)

\* The error the option checks of index.ts / part_000 throw, "none" if they pass.
ValidateOld(a) ==
    IF Falsy(a.apiKey) THEN "Missing API key"
    ELSE IF Falsy(a.folder) THEN "Missing serve directory"
    ELSE "none"

\* index.ts: validation, staging, start of the archive.
BuildDone_index ==
    /\ proc = "alive" /\ pc = "start" /\ variant = V_INDEX
    /\ IF ValidateOld(args) # "none"
       THEN /\ log' = log \cup {<<"error", ValidateOld(args)>>}
            /\ Throw(OwnError(ValidateOld(args)))
            /\ UNCHANGED <<folder, rssFile, rssContent, tmpDir, srcFiles>>
       ELSE /\ folder' = FolderDefault(args.folder)
            /\ rssFile' = getRssFile(srcFiles)
            /\ rssContent' = RssContentOld(getRssFile(srcFiles))
            /\ tmpDir' = cpSync(srcFiles, folder', FreshTmp(tmpDir))
            /\ pc' = "zip"
            /\ UNCHANGED <<srcFiles, log, err>>
    /\ UNCHANGED <<variant, args, zipFile, calls, detached, proc, runs, atStart, hooks, zips>>

\* part_000: as index.ts, with the 404.html rename before the copy.
BuildDone_000 ==
    /\ proc = "alive" /\ pc = "start" /\ variant = V_000
    /\ IF ValidateOld(args) # "none"
       THEN /\ log' = log \cup {<<"error", ValidateOld(args)>>}
            /\ Throw(OwnError(ValidateOld(args)))
            /\ UNCHANGED <<folder, rssFile, rssContent, tmpDir, srcFiles>>
       ELSE /\ folder' = FolderDefault(args.folder)
            /\ rssFile' = getRssFile(srcFiles)
            /\ rssContent' = RssContentOld(getRssFile(srcFiles))
            /\ srcFiles' = Rename404(srcFiles)
            /\ log' = IF "404.html" \in srcFiles
                      THEN log \cup {<<"info", "Found 404.html">>} ELSE log
            /\ tmpDir' = cpSync(srcFiles', folder', FreshTmp(tmpDir))
            /\ pc' = "zip"
            /\ UNCHANGED err
    /\ UNCHANGED <<variant, args, zipFile, calls, detached, proc, runs, atStart, hooks, zips>>

\* part_001: the API key check, then await neko.getSiteInfo(domain).
BuildDone_001 ==
    /\ proc = "alive" /\ pc = "start" /\ variant = V_001
    /\ IF Falsy(args.apiKey)
       THEN /\ log' = log \cup {<<"error", "Missing API key">>}
            /\ Throw(OwnError("Missing API key"))
            /\ UNCHANGED calls
       ELSE /\ calls' = Issue("siteinfo")
            /\ pc' = "siteinfo"
            /\ UNCHANGED <<log, err>>
    /\ UNCHANGED <<variant, args, srcFiles, folder, rssFile, rssContent, tmpDir,
                   zipFile, detached, proc, runs, atStart, hooks, zips>>

\* Staging_001 with the folder check moved after fs.mkdirSync(tmpBuildDir).
Staging_001_late_check ==
    /\ proc = "alive" /\ pc = "siteinfo" /\ variant = V_001
    /\ Settled("siteinfo")
    /\ IF ResultOf("siteinfo") # "ok"
       THEN /\ Throw(CallError("siteinfo", ResultOf("siteinfo")))
            /\ UNCHANGED <<folder, rssFile, rssContent, tmpDir, srcFiles, log>>
       ELSE \E siteFolder \in {"", "site"} :
            IF Falsy(siteFolder)
            THEN /\ tmpDir' = FreshTmp(tmpDir)
                 /\ log' = log \cup {<<"error", "Missing folder">>}
                 /\ Throw(OwnError("Missing folder"))
                 /\ UNCHANGED <<folder, rssFile, rssContent, srcFiles>>
            ELSE /\ folder' = siteFolder
                 /\ rssContent' = RssContentNew(args.rssFeed)
                 /\ rssFile' = IF args.rssFeed # "undefined"
                               THEN args.rssFeed ELSE "none"
                 /\ srcFiles' = Rename404(srcFiles)
                 /\ tmpDir' = cpSync(srcFiles', folder', FreshTmp(tmpDir))
                 /\ pc' = "zip"
                 /\ UNCHANGED <<err, log>>
    /\ UNCHANGED <<variant, args, zipFile, calls, detached, proc, runs, atStart, hooks, zips>>

\* part_001: site.folder of the answer, the folder check, staging.
Staging_001 ==
    /\ proc = "alive" /\ pc = "siteinfo" /\ variant = V_001
    /\ Settled("siteinfo")
    /\ IF ResultOf("siteinfo") # "ok"
       THEN /\ Throw(CallError("siteinfo", ResultOf("siteinfo")))
            /\ UNCHANGED <<folder, rssFile, rssContent, tmpDir, srcFiles, log>>
       ELSE \E siteFolder \in {"", "site"} :
            IF Falsy(siteFolder)
            THEN /\ log' = log \cup {<<"error", "Missing folder">>}
                 /\ Throw(OwnError("Missing folder"))
                 /\ UNCHANGED <<folder, rssFile, rssContent, tmpDir, srcFiles>>
            ELSE /\ folder' = siteFolder
                 /\ IF args.rssFeed # "undefined" /\ args.rssFeed \notin srcFiles
                    THEN \* readFileSync throws ENOENT after mkdirSync
                         /\ tmpDir' = FreshTmp(tmpDir)
                         /\ Throw(OwnError("ENOENT"))
                         /\ UNCHANGED <<rssFile, rssContent, srcFiles, log>>
                    ELSE /\ rssContent' = RssContentNew(args.rssFeed)
                         /\ rssFile' = IF args.rssFeed # "undefined"
                                       THEN args.rssFeed ELSE "none"
                         /\ srcFiles' = Rename404(srcFiles)
                         /\ log' = IF "404.html" \in srcFiles
                                   THEN log \cup {<<"info", "Found 404.html">>}
                                   ELSE log
                         /\ tmpDir' = cpSync(srcFiles', folder', FreshTmp(tmpDir))
                         /\ pc' = "zip"
                         /\ UNCHANGED err
    /\ UNCHANGED <<variant, args, zipFile, calls, detached, proc, runs, atStart, hooks, zips>>

\* const tmpBuildDir = '.build-temp'
TmpBuildDir == ".build-temp"

\* archive.directory(source) : the entries keep the directory's own name.
directory_rooted(files, destpath) == {<<TmpBuildDir>> \o p : p \in files}

\* archive.directory(source, destpath): the entries of the archive for the files
\* of the directory (paths relative to it); destpath false ("" here) puts them
\* at the root of the archive, a string puts them under that name.
directory(files, destpath) ==
    IF destpath = "" THEN files ELSE {<<destpath>> \o p : p \in files}

\* zipDirectory(tmpBuildDir, zipFileName): archive.pipe(output);
\* archive.directory(source, false); return archive.finalize().  The promise
\* settles when the archiver has produced its last byte, or failed; nothing waits
\* for the write stream `output` to close, so when zipDirectory returns the file
\* is complete or still being written ("flushing").
zipDirectory ==
    /\ proc = "alive" /\ pc = "zip"
    /\ \/ /\ \E st \in {"complete", "flushing"} :
                zipFile' = [state |-> st, entries |-> directory(tmpDir.files, "")]
          /\ pc' = "zipped"
          /\ UNCHANGED err
       \/ /\ zipFile' \in {zipFile, [state |-> "partial", entries |-> {}]}
          /\ Throw(OwnError("archive"))
    /\ UNCHANGED <<variant, args, srcFiles, folder, rssFile, rssContent, tmpDir,
                   calls, detached, log, proc, runs, atStart, hooks, zips>>

\* fs.createWriteStream(out): the stream writes its last buffered chunk and
\* closes.
OutputFlushed ==
    /\ proc = "alive" /\ zipFile.state = "flushing"
    /\ zipFile' = [zipFile EXCEPT !.state = "complete"]
    /\ UNCHANGED <<variant, args, srcFiles, folder, rssFile, rssContent, tmpDir,
                   pc, calls, detached, err, log, proc, runs, atStart, hooks, zips>>

----------------------------------------------------------------------------
(* create, append, delete *)

\* The hook with the old deployment removed before the upload begins.
AfterZip_delete_first ==
    /\ proc = "alive" /\ pc = "zipped"
    /\ log' = log \cup {<<"info", "Compressed">>}
    /\ calls' = Append(Append(calls, CallArg("delete", folder)), Call("create"))
    /\ pc' = "create"
    /\ UNCHANGED <<variant, args, srcFiles, folder, rssFile, rssContent, tmpDir,
                   zipFile, detached, err, proc, runs, atStart, hooks, zips>>

\* logger.info(`Compressed ...`); await neko.initFileUpload()
AfterZip ==
    /\ proc = "alive" /\ pc = "zipped"
    /\ log' = log \cup {<<"info", "Compressed">>}
    /\ calls' = Issue("create")
    /\ pc' = "create"
    /\ UNCHANGED <<variant, args, srcFiles, folder, rssFile, rssContent, tmpDir,
                   zipFile, detached, err, proc, runs, atStart, hooks, zips>>

\* initFileUpload that asks for a session a second time when the first request
\* failed.
initFileUpload_retry ==
    /\ proc = "alive" /\ pc = "create"
    /\ calls[Len(calls)].op = "create" /\ calls[Len(calls)].res # "pending"
    /\ IF calls[Len(calls)].res = "ok"
       THEN /\ log' = log \cup {<<"info", "Created BigFile upload session">>}
            /\ calls' = Append(calls, CallArg("append", zipFile.state))
            /\ pc' = "append"
            /\ UNCHANGED err
       ELSE IF Len(calls) < 4
       THEN /\ calls' = Issue("create")
            /\ UNCHANGED <<pc, err, log>>
       ELSE /\ log' = log \cup {<<"console", "create">>}
            /\ Throw(CallError("create", calls[Len(calls)].res))
            /\ UNCHANGED calls
    /\ UNCHANGED <<variant, args, srcFiles, folder, rssFile, rssContent, tmpDir,
                   zipFile, detached, proc, runs, atStart, hooks, zips>>

\* initFileUpload with a catch that logs and does not rethrow.
initFileUpload_norethrow ==
    /\ proc = "alive" /\ pc = "create" /\ Settled("create")
    /\ log' = log \cup {IF ResultOf("create") = "ok"
                        THEN <<"info", "Created BigFile upload session">>
                        ELSE <<"console", "create">>}
    /\ calls' = Append(calls, CallArg("append", zipFile.state))
    /\ pc' = "append"
    /\ UNCHANGED <<variant, args, srcFiles, folder, rssFile, rssContent, tmpDir,
                   zipFile, detached, err, proc, runs, atStart, hooks, zips>>

\* initFileUpload: try { create } catch (error) { console.error(error); throw error }
\* then the archive is read and appended.
initFileUpload ==
    /\ proc = "alive" /\ pc = "create" /\ Settled("create")
    /\ IF ResultOf("create") = "ok"
       THEN /\ log' = log \cup {<<"info", "Created BigFile upload session">>}
            /\ calls' = Append(calls, CallArg("append", zipFile.state))
            /\ pc' = "append"
            /\ UNCHANGED err
       ELSE /\ log' = log \cup {<<"console", "create">>}
            /\ Throw(CallError("create", ResultOf("create")))
            /\ UNCHANGED calls
    /\ UNCHANGED <<variant, args, srcFiles, folder, rssFile, rssContent, tmpDir,
                   zipFile, detached, proc, runs, atStart, hooks, zips>>

\* uploadFile that does not look at the response of append.
uploadFile_unchecked ==
    /\ proc = "alive" /\ pc = "append" /\ Settled("append")
    /\ log' = log \cup {<<"info", "Uploaded">>}
    /\ calls' = Append(calls, CallArg("delete", folder))
    /\ pc' = "delete"
    /\ UNCHANGED <<variant, args, srcFiles, folder, rssFile, rssContent, tmpDir,
                   zipFile, detached, err, proc, runs, atStart, hooks, zips>>

\* uploadFile that replaces the error of append by one of its own.
uploadFile_wrapped ==
    /\ proc = "alive" /\ pc = "append" /\ Settled("append")
    /\ IF ResultOf("append") = "ok"
       THEN /\ log' = log \cup {<<"info", "Uploaded">>}
            /\ calls' = Append(calls, CallArg("delete", folder))
            /\ pc' = "delete"
            /\ UNCHANGED err
       ELSE /\ Throw(OwnError("Deployment failed"))
            /\ UNCHANGED <<calls, log>>
    /\ UNCHANGED <<variant, args, srcFiles, folder, rssFile, rssContent, tmpDir,
                   zipFile, detached, proc, runs, atStart, hooks, zips>>

\* await bigId.append(zip) / uploadFile; then the best-effort delete is issued.
uploadFile ==
    /\ proc = "alive" /\ pc = "append" /\ Settled("append")
    /\ IF ResultOf("append") = "ok"
       THEN /\ log' = log \cup {<<"info", "Uploaded">>}
            /\ calls' = Append(calls, CallArg("delete", folder))
            /\ pc' = "delete"
            /\ UNCHANGED err
       ELSE /\ Throw(CallError("append", ResultOf("append")))
            /\ UNCHANGED <<calls, log>>
    /\ UNCHANGED <<variant, args, srcFiles, folder, rssFile, rssContent, tmpDir,
                   zipFile, detached, proc, runs, atStart, hooks, zips>>

----------------------------------------------------------------------------
(* finalizeUpload *)

HookFrame == UNCHANGED <<variant, args, srcFiles, folder, rssFile, rssContent,
                         tmpDir, zipFile, proc, runs, atStart, hooks, zips>>

\* if (rssFile && rssContent): the operation finalizeUpload issues after /csrf
FirstEdit == IF rssFile # "none" /\ rssContent # NoContent
             THEN "edit_rss" ELSE "edit_marker"

\* The marker file's content: one comment naming the adapter and the time.
MarkerContent == [file |-> "none", newlines |-> 0, markers |-> 1]

\* The pathname of the marker file, as each revision writes it.
MarkerPath ==
    CASE variant = V_INDEX -> ".astro-adapter-nekoweb.html"
      [] variant = V_000 -> "/.astro-adapter.nekoweb.html"
      [] variant = V_001 -> "/.astro-adapter-nekoweb.html"

\* The text of the answer to GET /csrf in run r: a token the server issues for
\* that request.
CsrfToken(r) == r

\* The `site` field of an edit: index.ts sends username['username'] of the parsed
\* /site/info body (undefined when the body is an error's), part_000 sends
\* this.site, set by getCSRFToken from the answer, part_001 sends the siteName
\* argument, which the hook passes as `siteName ?? ''`.
SiteField ==
    CASE variant = V_INDEX ->
             IF ResultOf("csrf_siteinfo") = "ok" THEN SiteId ELSE "undefined"
      [] variant = V_000 -> SiteId
      [] variant = V_001 ->
             IF args.siteName = "undefined" THEN "" ELSE args.siteName

\* The form of an edit request: csrf, site, pathname and content (RSS feed or
\* marker file).
EditCall(op) ==
    [(IF op = "edit_rss"
      THEN CallEdit("edit_rss", rssFile, rssContent)
      ELSE CallEdit("edit_marker", MarkerPath, MarkerContent))
        EXCEPT !.site = SiteField, !.csrf = CsrfToken(runs)]

\* index.ts finalizeUpload, first line: the import request is issued and awaited.
finalizeUpload_begin ==
    /\ variant = V_INDEX
    /\ calls' = Issue("import")
    /\ pc' = "import"
    /\ UNCHANGED <<detached, log>>

\* BigFileExt.finalizeUpload without the `if (!api.ucfg)` return.
BigFileExt_finalizeUpload_begin_nocheck ==
    /\ variant \in {V_000, V_001}
    /\ calls' = Append(Issue("import"), Call("csrf_siteinfo"))
    /\ detached' = TRUE
    /\ pc' = "csrf_siteinfo"
    /\ UNCHANGED log

\* BigFileExt.finalizeUpload up to its first await: `let res = this.import()` is
\* not awaited.  Without a cookie client `return res` hands the import promise to
\* the caller; with one the code goes on to api.getCSRFToken() and nothing holds
\* the import promise.
BigFileExt_finalizeUpload_begin ==
    /\ variant \in {V_000, V_001}
    /\ IF ~args.cookie
       THEN /\ calls' = Issue("import")
            /\ log' = log \cup {<<"warn", "Nekoweb Cookie not found">>}
            /\ pc' = "import"
            /\ UNCHANGED detached
       ELSE /\ calls' = Append(Issue("import"), Call("csrf_siteinfo"))
            /\ detached' = TRUE
            /\ pc' = "csrf_siteinfo"
            /\ UNCHANGED log

\* The delete call without its try/catch: a transport failure leaves the hook.
AfterDelete_rethrow ==
    /\ proc = "alive" /\ pc = "delete" /\ Settled("delete")
    /\ IF ResultOf("delete") = "neterr"
       THEN /\ Throw(CallError("delete", "neterr"))
            /\ UNCHANGED <<calls, detached, log>>
       ELSE /\ \/ finalizeUpload_begin
               \/ BigFileExt_finalizeUpload_begin
            /\ UNCHANGED err
    /\ HookFrame

\* try { await delete(folder) } catch (e) { }: whatever the call did, the hook goes
\* on to finalizeUpload.
AfterDelete ==
    /\ proc = "alive" /\ pc = "delete" /\ Settled("delete")
    /\ \/ finalizeUpload_begin
       \/ BigFileExt_finalizeUpload_begin
    /\ UNCHANGED err
    /\ HookFrame

\* index.ts: if (!response.ok) throw ...; else if (!token['Cookie']) { warn; return }
\* otherwise getCSRFToken starts with GET /site/info.
finalizeUpload_imported ==
    /\ proc = "alive" /\ pc = "import" /\ variant = V_INDEX
    /\ Settled("import")
    /\ IF ResultOf("import") # "ok"
       THEN /\ Throw(CallError("import", ResultOf("import")))
            /\ UNCHANGED <<calls, log>>
       ELSE IF ~args.cookie
       THEN /\ log' = log \cup {<<"warn", "Nekoweb Cookie not found">>}
            /\ pc' = "finalized"
            /\ UNCHANGED <<calls, err>>
       ELSE /\ calls' = Issue("csrf_siteinfo")
            /\ pc' = "csrf_siteinfo"
            /\ UNCHANGED <<log, err>>
    /\ UNCHANGED detached
    /\ HookFrame

\* part_000 / part_001 without a cookie: the hook awaits the promise returned by
\* finalizeUpload, which is the import promise.
BigFileExt_finalizeUpload_returned ==
    /\ proc = "alive" /\ pc = "import" /\ variant \in {V_000, V_001}
    /\ Settled("import")
    /\ IF ResultOf("import") = "ok"
       THEN pc' = "finalized" /\ UNCHANGED err
       ELSE Throw(CallError("import", ResultOf("import")))
    /\ UNCHANGED <<calls, detached, log>>
    /\ HookFrame

\* part_000 lines 179-182: catch (error) { logger.error(...); throw error }
Caught_000(e) ==
    /\ log' = log \cup {<<"error", "Failed to upload.">>}
    /\ Throw(e)

\* part_001 lines 198-200: catch (error) { logger.error(...) }
Caught_001(e) ==
    /\ log' = log \cup {<<"error", "Failed to upload.">>}
    /\ pc' = "finalized"
    /\ UNCHANGED err

Caught(e) == IF variant = V_000 THEN Caught_000(e) ELSE Caught_001(e)

\* index.ts getCSRFToken: the /site/info response is not checked, its body is
\* parsed as JSON; then GET /csrf.
getCSRFToken_siteinfo ==
    /\ proc = "alive" /\ pc = "csrf_siteinfo" /\ variant = V_INDEX
    /\ Settled("csrf_siteinfo")
    /\ \/ /\ ResultOf("csrf_siteinfo") = "neterr"
          /\ Throw(CallError("csrf_siteinfo", "neterr"))
          /\ UNCHANGED calls
       \/ /\ ResultOf("csrf_siteinfo") = "nonok"
          /\ Throw(CallError("csrf_siteinfo", "json"))  \* the body is no JSON
          /\ UNCHANGED calls
       \/ /\ ResultOf("csrf_siteinfo") \in {"ok", "nonok"}
          /\ calls' = Issue("csrf")
          /\ pc' = "csrf"
          /\ UNCHANGED err
    /\ UNCHANGED <<detached, log>>
    /\ HookFrame

\* NekoAPI.getCSRFToken: await this.getSiteInfo(), then the /csrf request.
NekoAPI_getCSRFToken_siteinfo ==
    /\ proc = "alive" /\ pc = "csrf_siteinfo" /\ variant \in {V_000, V_001}
    /\ Settled("csrf_siteinfo")
    /\ IF ResultOf("csrf_siteinfo") = "ok"
       THEN /\ calls' = Issue("csrf")
            /\ pc' = "csrf"
            /\ UNCHANGED <<err, log>>
       ELSE /\ Caught(CallError("csrf_siteinfo", ResultOf("csrf_siteinfo")))
            /\ UNCHANGED calls
    /\ UNCHANGED detached
    /\ HookFrame

\* index.ts getCSRFToken: if (!response.ok) throw ...; then the first edit.
getCSRFToken_csrf ==
    /\ proc = "alive" /\ pc = "csrf" /\ variant = V_INDEX
    /\ Settled("csrf")
    /\ IF ResultOf("csrf") = "ok"
       THEN /\ calls' = Append(calls, EditCall(FirstEdit))
            /\ pc' = FirstEdit
            /\ UNCHANGED err
       ELSE /\ Throw(CallError("csrf", ResultOf("csrf")))
            /\ UNCHANGED calls
    /\ UNCHANGED <<detached, log>>
    /\ HookFrame

\* NekoAPI.getCSRFToken after /csrf; then the first editFileCSRF.
NekoAPI_getCSRFToken_csrf ==
    /\ proc = "alive" /\ pc = "csrf" /\ variant \in {V_000, V_001}
    /\ Settled("csrf")
    /\ IF ResultOf("csrf") = "ok"
       THEN /\ calls' = Append(calls, EditCall(FirstEdit))
            /\ pc' = FirstEdit
            /\ UNCHANGED <<err, log>>
       ELSE /\ Caught(CallError("csrf", ResultOf("csrf")))
            /\ UNCHANGED calls
    /\ UNCHANGED detached
    /\ HookFrame

\* index.ts: if (!resp.ok) logger.error(...) after the RSS edit; then the marker.
finalizeUpload_rss ==
    /\ proc = "alive" /\ pc = "edit_rss" /\ variant = V_INDEX
    /\ Settled("edit_rss")
    /\ IF ResultOf("edit_rss") = "neterr"
       THEN /\ Throw(CallError("edit_rss", "neterr"))
            /\ UNCHANGED <<calls, log>>
       ELSE /\ log' = IF ResultOf("edit_rss") = "nonok"
                      THEN log \cup {<<"error", "Failed to send RSS cookie request">>}
                      ELSE log
            /\ calls' = Append(calls, EditCall("edit_marker"))
            /\ pc' = "edit_marker"
            /\ UNCHANGED err
    /\ UNCHANGED detached
    /\ HookFrame

\* part_000 / part_001: await api.editFileCSRF(rssFeed, rssContent, ...); then the
\* marker edit.
BigFileExt_finalizeUpload_rss ==
    /\ proc = "alive" /\ pc = "edit_rss" /\ variant \in {V_000, V_001}
    /\ Settled("edit_rss")
    /\ IF ResultOf("edit_rss") = "ok"
       THEN /\ calls' = Append(calls, EditCall("edit_marker"))
            /\ pc' = "edit_marker"
            /\ UNCHANGED <<err, log>>
       ELSE /\ Caught(CallError("edit_rss", ResultOf("edit_rss")))
            /\ UNCHANGED calls
    /\ UNCHANGED detached
    /\ HookFrame

\* index.ts: the marker edit; a non-success response is logged.
finalizeUpload_marker ==
    /\ proc = "alive" /\ pc = "edit_marker" /\ variant = V_INDEX
    /\ Settled("edit_marker")
    /\ IF ResultOf("edit_marker") = "neterr"
       THEN /\ Throw(CallError("edit_marker", "neterr"))
            /\ UNCHANGED log
       ELSE /\ log' = log \cup
                  {IF ResultOf("edit_marker") = "nonok"
                   THEN <<"error", "Failed to send cookie request">>
                   ELSE <<"info", "Sent cookie request">>}
            /\ pc' = "finalized"
            /\ UNCHANGED err
    /\ UNCHANGED <<calls, detached>>
    /\ HookFrame

\* part_000 / part_001: the marker edit, then logger.info('Sent cookie request').
BigFileExt_finalizeUpload_marker ==
    /\ proc = "alive" /\ pc = "edit_marker" /\ variant \in {V_000, V_001}
    /\ Settled("edit_marker")
    /\ IF ResultOf("edit_marker") = "ok"
       THEN /\ log' = log \cup {<<"info", "Sent cookie request">>}
            /\ pc' = "finalized"
            /\ UNCHANGED err
       ELSE Caught(CallError("edit_marker", ResultOf("edit_marker")))
    /\ UNCHANGED <<calls, detached>>
    /\ HookFrame

----------------------------------------------------------------------------
(* The end of the hook, the remote side, the process *)

\* logger.info(`Successfully deployed ...`); await fsp.unlink(zipFileName);
\* fs.rmSync(tmpBuildDir, { recursive: true, force: true })
Cleanup ==
    /\ proc = "alive" /\ pc = "finalized"
    /\ log' = log \cup {<<"info", "Successfully deployed">>}
    /\ zipFile' = NoZip
    /\ tmpDir' = rmSync(tmpDir)
    /\ pc' = "done"
    /\ UNCHANGED <<variant, args, srcFiles, folder, rssFile, rssContent, calls,
                   detached, err, proc, runs, atStart, hooks, zips>>

\* The remote side answers a pending call.
Respond ==
    /\ proc = "alive"
    /\ \E i \in 1..Len(calls) : \E o \in Outcomes :
          /\ calls[i].res = "pending"
          /\ calls' = [calls EXCEPT ![i].res = o]
    /\ UNCHANGED <<variant, args, srcFiles, folder, rssFile, rssContent, tmpDir,
                   zipFile, pc, detached, err, log, proc, runs, atStart, hooks, zips>>

\* The import promise nobody holds rejects: node reports an unhandled rejection,
\* which ends the process or only warns, depending on the node version and flags.
UnhandledRejection ==
    /\ proc = "alive" /\ detached /\ Failed("import")
    /\ detached' = FALSE
    /\ proc' \in {"alive", "crashed"}
    /\ UNCHANGED <<variant, args, srcFiles, folder, rssFile, rssContent, tmpDir,
                   zipFile, pc, calls, err, log, runs, atStart, hooks, zips>>

RunEnded == pc \in {"done", "failed"} \/ proc = "crashed"

\* The next build in the same working directory: a new process, a new build
\* output, the same configuration; local files are as the last run left them.
\* The write stream of the archive ended with the process that opened it: what
\* it had not written yet was either written before the exit or lost.
StartRun ==
    /\ RunEnded /\ runs < MaxRuns
    /\ runs' = runs + 1
    /\ srcFiles' \in SrcSets
    /\ folder' = "" /\ rssFile' = "none" /\ rssContent' = NoContent
    /\ pc' = "start" /\ calls' = <<>> /\ detached' = FALSE
    /\ err' = NoErr /\ log' = {} /\ proc' = "alive"
    /\ zipFile' \in IF zipFile.state = "flushing"
                     THEN {[zipFile EXCEPT !.state = st] :
                               st \in {"complete", "truncated"}}
                     ELSE {zipFile}
    /\ atStart' = [src |-> srcFiles', tmp |-> tmpDir, zip |-> zipFile']
    /\ UNCHANGED <<variant, args, tmpDir, hooks, zips>>

Next ==
    \/ BuildDone_index \/ BuildDone_000 \/ BuildDone_001 \/ Staging_001
    \/ zipDirectory \/ AfterZip \/ initFileUpload \/ uploadFile \/ AfterDelete
    \/ finalizeUpload_imported \/ BigFileExt_finalizeUpload_returned
    \/ getCSRFToken_siteinfo \/ NekoAPI_getCSRFToken_siteinfo
    \/ getCSRFToken_csrf \/ NekoAPI_getCSRFToken_csrf
    \/ finalizeUpload_rss \/ BigFileExt_finalizeUpload_rss
    \/ finalizeUpload_marker \/ BigFileExt_finalizeUpload_marker
    \/ OutputFlushed \/ Cleanup \/ Respond \/ UnhandledRejection \/ StartRun

Spec == Init /\ [][Next]_vars

----------------------------------------------------------------------------
(* Two builds at once in one working directory.  Each hook has its own build
   output and serve folder; '.build-temp' is the relative path both use, and
   '<folder>.zip' is one file when the folders are equal.  The remote calls
   touch no local file and are taken as one step. *)

OneRun == UNCHANGED <<variant, args, srcFiles, folder, rssFile, rssContent,
                      zipFile, pc, calls, detached, err, log, proc, runs,
                      atStart>>

InitTwo ==
    /\ variant \in Variants
    /\ args = [apiKey |-> "key", folder |-> "undefined", cookie |-> FALSE,
               rssFeed |-> "undefined", siteName |-> "undefined"]
    /\ srcFiles = {"index.html"}
    /\ folder = "" /\ rssFile = "none" /\ rssContent = NoContent
    /\ tmpDir = NoTmp /\ zipFile = NoZip
    /\ pc = "start" /\ calls = <<>> /\ detached = FALSE
    /\ err = NoErr /\ log = {} /\ proc = "alive" /\ runs = 1
    /\ atStart = [src |-> srcFiles, tmp |-> tmpDir, zip |-> zipFile]
    /\ hooks \in [Hooks -> [pc : {"start"}, folder : Folders, src : SrcSets]]
    /\ zips = NoZips

\* The staging of hook h: rmSync and mkdirSync of '.build-temp', the 404.html
\* rename (part_000, part_001), cpSync of the build output.
Staging_two(h) ==
    /\ hooks[h].pc = "start"
    /\ LET src == IF variant = V_INDEX THEN hooks[h].src
                  ELSE Rename404(hooks[h].src)
       IN /\ tmpDir' = cpSync(src, hooks[h].folder, FreshTmp(tmpDir))
          /\ hooks' = [hooks EXCEPT ![h].pc = "zip", ![h].src = src]
    /\ UNCHANGED zips
    /\ OneRun

\* zipDirectory(tmpBuildDir, zipFileName) of hook h: createWriteStream makes the
\* file; the archive takes what '.build-temp' holds now.  When the directory is
\* gone the archiver fails or ends with no entry.
zipDirectory_two(h) ==
    /\ hooks[h].pc = "zip"
    /\ \/ /\ zips' = [zips EXCEPT ![hooks[h].folder] =
                         [state |-> "complete",
                          entries |-> directory(tmpDir.files, "")]]
          /\ hooks' = [hooks EXCEPT ![h].pc = "zipped"]
       \/ /\ ~tmpDir.exists
          /\ zips' = [zips EXCEPT ![hooks[h].folder] =
                         [state |-> "partial", entries |-> {}]]
          /\ hooks' = [hooks EXCEPT ![h].pc = "failed"]
    /\ UNCHANGED tmpDir
    /\ OneRun

\* create, readFileSync(zipFileName), append, delete, finalizeUpload of hook h:
\* the hook goes on to its cleanup or throws.
Upload_two(h) ==
    /\ hooks[h].pc = "zipped"
    /\ IF zips[hooks[h].folder].state = "absent"
       THEN hooks' = [hooks EXCEPT ![h].pc = "failed"]
       ELSE \E p \in {"finalized", "failed"} :
               hooks' = [hooks EXCEPT ![h].pc = p]
    /\ UNCHANGED <<tmpDir, zips>>
    /\ OneRun

\* await fsp.unlink(zipFileName); fs.rmSync(tmpBuildDir, ...) of hook h.
Cleanup_two(h) ==
    /\ hooks[h].pc = "finalized"
    /\ IF zips[hooks[h].folder].state = "absent"
       THEN /\ hooks' = [hooks EXCEPT ![h].pc = "failed"]
            /\ UNCHANGED <<tmpDir, zips>>
       ELSE /\ zips' = [zips EXCEPT ![hooks[h].folder] = NoZip]
            /\ tmpDir' = rmSync(tmpDir)
            /\ hooks' = [hooks EXCEPT ![h].pc = "done"]
    /\ OneRun

NextTwo ==
    \E h \in Hooks :
        \/ Staging_two(h) \/ zipDirectory_two(h)
        \/ Upload_two(h) \/ Cleanup_two(h)

SpecTwo == InitTwo /\ [][NextTwo]_vars

----------------------------------------------------------------------------
(* Properties *)

UploadOps == {"create", "append", "delete", "import"}
MetadataOps == {"csrf_siteinfo", "csrf", "edit_rss", "edit_marker"}

Rank(op) == CASE op = "create" -> 1 [] op = "append" -> 2
              [] op = "delete" -> 3 [] op = "import" -> 4

MetadataIssued == \E op \in MetadataOps : Issued(op)
MetadataFailed == \E op \in MetadataOps : Failed(op)
ReportedSuccess == <<"info", "Successfully deployed">> \in log
CleanedUp == zipFile = NoZip /\ tmpDir = NoTmp
CookieWarning == <<"warn", "Nekoweb Cookie not found">>

\* C1: the upload calls of a run are issued in the order create, append,
\* delete, import, each at most once and none without the one before it; the
\* delete names the target folder of the run; and import is issued only when
\* append has completed successfully.
C1_UploadOrder ==
    /\ \A i, j \in 1..Len(calls) :
          (i < j /\ calls[i].op \in UploadOps /\ calls[j].op \in UploadOps)
             => Rank(calls[i].op) < Rank(calls[j].op)
    /\ Issued("append") => Issued("create")
    /\ Issued("delete") => Issued("append")
    /\ Issued("import") => Issued("delete") /\ Succeeded("append")
    /\ Issued("delete") => calls[IndexOf("delete")].arg = folder /\ folder # ""

C1_Witness == Issued("import") /\ Settled("delete") /\ pc = "done"

\* C2 (as claimed): once the import call has ended in a non-success response or
\* a transport failure, finalizeUpload does not return normally and the run
\* neither completes nor reports 'Successfully deployed'.
C2_ImportFailureFatal ==
    Failed("import") => pc \notin {"finalized", "done"} /\ ~ReportedSuccess

\* C3: when append has failed, no import and no metadata call is issued, the
\* hook fails, and the error it fails with is the error of the append call.
C3_AppendFailureStops ==
    Failed("append") =>
        /\ ~Issued("import") /\ ~MetadataIssued
        /\ pc \in {"append", "failed"}
        /\ pc = "failed" => err.step = "append"

C3_Witness == Failed("append") /\ pc = "failed" /\ err.step = "append"

\* C4: when create has failed, the hook fails with the very error of the create
\* call (its kind, the HTTP status or the transport failure, intact), create was
\* issued once, and no call follows it.
C4_CreateFailureAborts ==
    Failed("create") =>
        /\ pc \in {"create", "failed"}
        /\ pc = "failed" => err = CallError("create", ResultOf("create"))
        /\ Cardinality({i \in 1..Len(calls) : calls[i].op = "create"}) = 1
        /\ calls[Len(calls)].op = "create"

C4_Witness ==
    /\ Failed("create") /\ ResultOf("create") = "nonok" /\ pc = "failed"
    /\ err = CallError("create", "nonok")

\* C5 (as claimed): a failed metadata call (site info or /csrf of the CSRF
\* authentication, or an edit-file call) never makes the hook fail.
C5_MetadataFailureNotFatal ==
    MetadataFailed => pc # "failed" /\ err = NoErr

\* C6: the step that leaves the delete call, whatever its outcome, raises no
\* error, issues import as the next remote call, and logs nothing about the
\* delete (the only message it may write is finalizeUpload's cookie warning).
C6_DeleteSwallowed ==
    [][ (pc = "delete" /\ pc' # "delete") =>
            /\ pc' # "failed" /\ err' = NoErr
            /\ Len(calls') > Len(calls)
            /\ calls'[Len(calls) + 1].op = "import"
            /\ log' \ log \subseteq {CookieWarning} ]_vars

C6_Witness ==
    /\ Issued("delete") /\ ResultOf("delete") = "neterr"
    /\ Issued("import") /\ pc = "done"

\* C7: without a cookie no CSRF call and no edit-file call is issued; the run
\* does not fail once import has succeeded, and the skip is logged as a warning.
C7_NoCookieNoMetadata ==
    ~args.cookie =>
        /\ ~MetadataIssued
        /\ Succeeded("import") => pc # "failed" /\ err = NoErr
        /\ pc \in {"finalized", "done"} => CookieWarning \in log

C7_Witness == ~args.cookie /\ pc = "done" /\ Succeeded("import")

\* C8 (as claimed): a metadata call is issued only when the import call of the
\* run has completed successfully.
C8_MetadataAfterImport ==
    MetadataIssued => Succeeded("import")

\* C9 (as claimed): when a run ends that was fully successful or that failed in
\* a metadata call, the archive and the staging directory are gone.
C9_CleanupAfterMetadata ==
    (pc \in {"done", "failed"} /\ (pc = "done" \/ MetadataFailed)) => CleanedUp

\* C10 (as claimed): when a run ends by a fatal failure of archiving, create,
\* append or import, neither the archive nor the staging directory is left.
C10_CleanupOnEveryExit ==
    (pc = "failed" /\ err.step \in {"archive", "create", "append", "import"})
        => CleanedUp

ValidationErrors ==
    {OwnError("Missing API key"), OwnError("Missing serve directory"),
     OwnError("Missing folder"), CallError("siteinfo", "nonok"),
     CallError("siteinfo", "neterr")}

EditOps == {"edit_rss", "edit_marker"}

\* C11: when the hook has failed in validation (API key missing or empty, no
\* serve folder configured or resolved), it wrote the reason to the log, the
\* staging directory, the archive and the build output are as the run found
\* them, and no create, append, delete, import or edit-file call was issued.
C11_ValidationNoSideEffects ==
    (pc = "failed" /\ err \in ValidationErrors) =>
        /\ tmpDir = atStart.tmp /\ zipFile = atStart.zip
        /\ srcFiles = atStart.src
        /\ \A op \in UploadOps \cup EditOps : ~Issued(op)
        /\ err.kind = "thrown" => <<"error", err.step>> \in log

C11_Witness ==
    /\ pc = "failed" /\ err = OwnError("Missing folder")
    /\ runs = 2 /\ atStart.tmp.exists /\ "404.html" \in srcFiles

\* C12 (as claimed): when the folder option is omitted, the hook of the
\* revisions that have the option goes on with folder = "build" instead of
\* failing for the missing folder.
C12_FolderDefaultsToBuild ==
    (/\ variant \in {V_INDEX, V_000} /\ args.folder = "undefined"
     /\ ~Falsy(args.apiKey) /\ pc # "start")
        => folder = "build" /\ err # OwnError("Missing serve directory")

\* C13 (as claimed): at every point of a run the build output directory holds
\* the files, under the names, it held when the run began.
C13_SourceReadOnly == srcFiles = atStart.src

Staged(f) == <<folder, f>> \in tmpDir.files
Archived(f) == <<folder, f>> \in zipFile.entries

\* C14 (as claimed): when the build output held 404.html, the staged copy holds
\* not_found.html and no 404.html, and so does the archive made from it.
C14_NotFoundRenamed ==
    ("404.html" \in atStart.src /\ pc \in {"zip", "zipped"}) =>
        /\ ~Staged("404.html") /\ Staged("not_found.html")
        /\ pc = "zipped" => ~Archived("404.html") /\ Archived("not_found.html")

AfterArchive ==
    {"zipped", "create", "append", "delete", "import", "csrf_siteinfo", "csrf",
     "edit_rss", "edit_marker", "finalized"}

\* C16: the entries of the archive a run has made are exactly the files of the
\* build output, each under the serve folder's name; no entry path contains the
\* name of the staging directory.
C16_ArchiveLayout ==
    pc \in AfterArchive =>
        /\ zipFile.entries = {<<folder, f>> : f \in srcFiles}
        /\ \A p \in zipFile.entries :
              \A i \in 1..Len(p) : p[i] # TmpBuildDir

C16_Witness ==
    /\ pc = "zipped" /\ runs = 2 /\ atStart.tmp.exists
    /\ <<folder, "not_found.html">> \in zipFile.entries

\* C19 (as claimed): when zipDirectory has returned the archive file is
\* completely written, and the bytes read from it for append are the complete
\* archive.
C19_ArchiveCompleteBeforeAppend ==
    /\ pc = "zipped" => zipFile.state = "complete"
    /\ Issued("append") => calls[IndexOf("append")].arg = "complete"

\* C17 (as claimed): the hook fails only in validation, archiving, create,
\* append or import: the error it fails with is a validation error or the error
\* of one of those four steps, never one raised while staging, deleting,
\* updating metadata or cleaning up.
C17_FailedOnlyFromFatalSteps ==
    pc = "failed" =>
        \/ err \in ValidationErrors
        \/ err.step \in {"archive", "create", "append", "import"}

InFlight == {i \in 1..Len(calls) : calls[i].res = "pending"}

\* C18 (as claimed): at most one remote call of a run is in flight.
C18_OneCallInFlight == Cardinality(InFlight) <= 1

Count(op) == Cardinality({i \in 1..Len(calls) : calls[i].op = op})

\* C20: in a run each of create, append, delete and import is issued at most
\* once, and an append is issued only after the one create of the run has
\* succeeded.
C20_SingleAttempt ==
    /\ \A op \in UploadOps : Count(op) <= 1
    /\ Issued("append") => Count("create") = 1 /\ Succeeded("create")

C20_Witness ==
    /\ pc = "done" /\ \A op \in UploadOps : Count(op) = 1
    /\ Failed("delete")

\* A call of op issued before call number i has succeeded.
Before(i, op) == \E j \in 1..(i - 1) : calls[j].op = op /\ calls[j].res = "ok"

\* C21 (as claimed): an edit-file call is issued only after both calls of CSRF
\* authentication (site info, then /csrf) succeeded in this run; there is at
\* most one RSS edit and one marker edit; the RSS edit is issued only when there
\* is an RSS feed, and it has returned before the marker edit is issued.
C21_MetadataOrder ==
    /\ \A i \in 1..Len(calls) :
          calls[i].op \in EditOps =>
              Before(i, "csrf_siteinfo") /\ Before(i, "csrf")
    /\ Count("edit_rss") <= 1 /\ Count("edit_marker") <= 1
    /\ Issued("edit_rss") => rssFile # "none"
    /\ (Issued("edit_rss") /\ Issued("edit_marker")) =>
          /\ IndexOf("edit_rss") < IndexOf("edit_marker")
          /\ Settled("edit_rss")

\* C22 (as claimed): every edit-file request carries the CSRF token issued in
\* this run and, as its site field, the identifier the site-info call of CSRF
\* authentication returned.
C22_EditCarriesContext ==
    \A i \in 1..Len(calls) :
        calls[i].op \in EditOps =>
            calls[i].csrf = CsrfToken(runs) /\ calls[i].site = SiteId

\* The hook is past staging: the build output has been copied.
AfterStaging == AfterArchive \cup {"zip"}

\* C23: once a run has staged, the staging directory holds the files of this
\* run's build output under the serve folder and nothing else, whatever an
\* earlier run left in it; the archive made from it holds nothing else either.
C23_StaleStagingRemoved ==
    /\ pc \in AfterStaging =>
          /\ tmpDir.exists
          /\ tmpDir.files = {<<folder, f>> : f \in srcFiles}
    /\ pc \in AfterArchive =>
          \A p \in zipFile.entries : p \in tmpDir.files

\* A run has staged and archived where the previous run left a staging directory
\* with a file this build does not have.
C23_Witness ==
    /\ pc \in AfterArchive /\ runs > 1
    /\ \E p \in atStart.tmp.files : p[2] \notin srcFiles
    /\ zipFile.entries # {}

\* C25: a delete call is issued only when, earlier in the same run, create and
\* append have returned successfully; a run whose create or append failed has
\* issued no delete.
C25_DeleteAfterUpload ==
    /\ \A i \in 1..Len(calls) :
          calls[i].op = "delete" => Before(i, "create") /\ Before(i, "append")
    /\ (Failed("create") \/ Failed("append")) => ~Issued("delete")

\* The second build of a directory issues its delete, the first one having
\* stopped after it wrote its archive.
C25_Witness ==
    /\ Issued("delete") /\ pc = "delete" /\ runs > 1
    /\ atStart.zip.state # "absent"

\* C26 (as claimed): when CSRF authentication succeeded and the RSS edit has
\* failed, finalizeUpload goes on and issues the marker edit.
C26_MarkerAfterFailedRss ==
    (/\ Succeeded("csrf") /\ Failed("edit_rss")
     /\ pc \in {"edit_marker", "finalized", "done", "failed"})
        => Issued("edit_marker")

\* C27 (as claimed): without a cookie the RSS feed setting decides nothing: the
\* hook never fails for reading the feed, so the run ends as it would with no
\* feed configured.
C27_RssIrrelevantWithoutCookie ==
    ~args.cookie => err # OwnError("ENOENT")

\* The staged files of hook h.
Own(h) == {<<hooks[h].folder, f>> : f \in hooks[h].src}

\* C24 (as claimed): with two hooks running in one working directory, what a
\* hook has staged is still in the staging directory when it archives it, and
\* the archive a hook has made holds no file staged by the other hook; this
\* for two hooks that deploy to different folders.
C24_StagingScopedToRun ==
    \A h, g \in Hooks :
        hooks[g].folder # hooks[h].folder =>
            /\ hooks[h].pc = "zip" =>
                  tmpDir.exists /\ Own(h) \subseteq tmpDir.files
            /\ hooks[h].pc = "zipped" =>
                  zips[hooks[h].folder].entries \cap Own(g) = {}

====
